---- MODULE Spec2Model ----
(***************************************************************************)
(* The crossword puzzle state machine of src/src/crossword/crossword.py:  *)
(* a clue list, a history of grid snapshots and the parallel history of   *)
(* clue indices, with the operations add_clue, get_current_clue_chars,    *)
(* set_clue_chars, reveal_clue_answer, reveal_all, validate_clue_chars,   *)
(* validate_all, undo and reset.                                          *)
(*                                                                         *)
(* A Python exception is modelled by the field err of an operation's      *)
(* result; the state carried in the result is the state the puzzle is     *)
(* left in when the exception propagates to the caller.                   *)
(***************************************************************************)
EXTENDS Integers, Sequences, FiniteSets, TLC

VARIABLES width, height, clues, grid_history, clue_history, creator, last

vars == <<width, height, clues, grid_history, clue_history, creator, last>>

----------------------------------------------------------------------------
(* Bounds of the model *)

\* dimensions of the puzzles that are constructed
GridWidth == 3
GridHeight == 2
\* the longest grid_history the explored runs build
MaxHistory == 3

----------------------------------------------------------------------------
(* Values *)

\* Python's None as a cell value (Cell.value: Optional[str])
None == "None"

\* Clue.answer: Optional[str]; <<>> is None, <<s>> is the string whose
\* characters are the sequence s
NoAnswer == <<>>
Some(s) == <<s>>

\* Python truthiness of an Optional[str]: None and "" are false
truthy(answer) == answer # NoAnswer /\ answer[1] # <<>>

\* str.upper() on the one-character strings used as inputs
LowerCase == <<"a", "b", "c", "e", "o", "r", "t", "w">>
UpperCase == <<"A", "B", "C", "E", "O", "R", "T", "W">>
upper(ch) ==
    IF \E i \in DOMAIN LowerCase : LowerCase[i] = ch
    THEN UpperCase[CHOOSE i \in DOMAIN LowerCase : LowerCase[i] = ch]
    ELSE ch

ACROSS == "across"
DOWN == "down"
Direction == {ACROSS, DOWN}

\* a Clue object by its fields
Clue(number, text, direction, length, row, col, answer, answered) ==
    [number |-> number, text |-> text, direction |-> direction, length |-> length,
     row |-> row, col |-> col, answer |-> answer, answered |-> answered]

\* Clue.cells(): the list of (row, col) pairs, here indexed 1..length
cells(clue) ==
    [i \in 1..clue.length |->
        IF clue.direction = ACROSS
        THEN <<clue.row, clue.col + (i - 1)>>
        ELSE <<clue.row + (i - 1), clue.col>>]

\* a Grid whose cells are all blank: cells[r][c] is the value of Cell(r, c)
EmptyGrid(w, h) ==
    [width |-> w, height |-> h,
     cells |-> [r \in 0..(h - 1) |-> [c \in 0..(w - 1) |-> None]]]

\* CrosswordPuzzle.__init__ with no grid_history supplied
NewPuzzle(w, h, cs) ==
    [width |-> w, height |-> h, clues |-> cs,
     grid_history |-> <<EmptyGrid(w, h)>>, clue_history |-> <<>>]

\* CrosswordPuzzle.current_grid
current_grid(self) == self.grid_history[Len(self.grid_history)]

\* whether cells[row][col] exists (otherwise Python raises IndexError)
HasCell(grid, rc) ==
    /\ rc[1] \in DOMAIN grid.cells
    /\ rc[2] \in DOMAIN grid.cells[rc[1]]

----------------------------------------------------------------------------
(* Results of operations *)

NoErr == "none"
NoClue == <<>>

\* normal return: the puzzle after the call, the argument object after the
\* call (NoClue when the operation takes none) and the returned value
Return(self, clue, ret) == [self |-> self, err |-> NoErr, clue |-> clue, ret |-> ret]
\* an exception of class err propagating out of the call
Raise(self, clue, err) == [self |-> self, err |-> err, clue |-> clue, ret |-> <<>>]

\* faulty variant: membership by object identity alone
contains_identity(cs, pos, clue) == pos > 0

\* `clue in self.clues`: list membership compares with ==, which for
\* pydantic models is equality of all fields. pos is the position (1..) of
\* the object in self.clues when it is an element of the list, 0 otherwise.
contains(cs, pos, clue) == pos > 0 \/ \E i \in DOMAIN cs : cs[i] = clue

\* list.index: the first position holding the object or an equal one (0 = ValueError)
index(cs, clue) ==
    IF \E i \in DOMAIN cs : cs[i] = clue
    THEN CHOOSE i \in DOMAIN cs : cs[i] = clue /\ \A j \in DOMAIN cs : cs[j] = clue => i <= j
    ELSE 0

----------------------------------------------------------------------------
(* Operations of CrosswordPuzzle *)

\* faulty variant: the end of the clue compared with < where the code has <=
validate_position_strict(self, clue) ==
    IF ~(0 <= clue.row /\ clue.row < self.height /\ 0 <= clue.col /\ clue.col < self.width)
    THEN FALSE
    ELSE IF clue.direction = ACROSS
         THEN clue.col + clue.length < self.width
         ELSE clue.row + clue.length < self.height

validate_clue_chars_position(self, clue) ==
    IF ~(0 <= clue.row /\ clue.row < self.height /\ 0 <= clue.col /\ clue.col < self.width)
    THEN FALSE
    ELSE IF clue.direction = ACROSS
         THEN clue.col + clue.length <= self.width
         ELSE clue.row + clue.length <= self.height

add_clue(self, clue) ==
    IF \E i \in DOMAIN self.clues : self.clues[i].number = clue.number
    THEN Raise(self, <<clue>>, "InvalidClueError")
    ELSE IF ~validate_clue_chars_position(self, clue)
         THEN Raise(self, <<clue>>, "InvalidClueError")
         ELSE Return([self EXCEPT !.clues = Append(@, clue)], <<clue>>, <<>>)

get_current_clue_chars(self, pos, clue) ==
    IF ~contains(self.clues, pos, clue)
    THEN Raise(self, <<clue>>, "InvalidClueError")
    ELSE IF \E k \in 1..clue.length : ~HasCell(current_grid(self), cells(clue)[k])
         THEN Raise(self, <<clue>>, "IndexError")
         ELSE Return(self, <<clue>>,
                     [k \in 1..clue.length |->
                        current_grid(self).cells[cells(clue)[k][1]][cells(clue)[k][2]]])

\* the deep copy of the current grid with the clue's cells overwritten
\* faulty variant: the new grid starts empty instead of as a copy of the
\* current grid
filled_grid_fresh(grid, clue, chars) ==
    [grid EXCEPT !.cells =
        [r \in DOMAIN grid.cells |-> [c \in DOMAIN grid.cells[r] |->
            IF \E k \in 1..clue.length : cells(clue)[k] = <<r, c>>
            THEN upper(chars[CHOOSE k \in 1..clue.length : cells(clue)[k] = <<r, c>>])
            ELSE None]]]

\* faulty variant: the characters are written as given, not uppercased
filled_grid_as_given(grid, clue, chars) ==
    [grid EXCEPT !.cells =
        [r \in DOMAIN grid.cells |-> [c \in DOMAIN grid.cells[r] |->
            IF \E k \in 1..clue.length : cells(clue)[k] = <<r, c>>
            THEN chars[CHOOSE k \in 1..clue.length : cells(clue)[k] = <<r, c>>]
            ELSE grid.cells[r][c]]]]

filled_grid(grid, clue, chars) ==
    [grid EXCEPT !.cells =
        [r \in DOMAIN grid.cells |-> [c \in DOMAIN grid.cells[r] |->
            IF \E k \in 1..clue.length : cells(clue)[k] = <<r, c>>
            THEN upper(chars[CHOOSE k \in 1..clue.length : cells(clue)[k] = <<r, c>>])
            ELSE grid.cells[r][c]]]]

\* faulty variant: the new grid is the current grid object itself, not a deep copy:
\* the fill is written into the snapshot on top of the history as well
push_shared_grid(self, new_grid) ==
    [self EXCEPT !.grid_history = Append([@ EXCEPT ![Len(@)] = new_grid], new_grid)]

\* self.grid_history.append(new_grid)
push_grid(self, new_grid) == [self EXCEPT !.grid_history = Append(@, new_grid)]

\* clue.answered = True, on the list element when the object is one
mark_answered(self, pos) ==
    IF pos > 0 THEN [self EXCEPT !.clues[pos].answered = TRUE] ELSE self

\* faulty variant: without model_copy(deep=True) the characters are written
\* into the current grid, which is appended once more
set_clue_chars_in_place(self, pos, clue, chars) ==
    IF Len(chars) # clue.length
    THEN Raise(self, <<clue>>, "InvalidClueError")
    ELSE IF \E k \in 1..clue.length : ~HasCell(current_grid(self), cells(clue)[k])
    THEN Raise(self, <<clue>>, "IndexError")
    ELSE LET s1 == push_shared_grid(self, filled_grid(current_grid(self), clue, chars))
             s2 == mark_answered(s1, pos)
             obj == [clue EXCEPT !.answered = TRUE]
             idx == index(s2.clues, obj)
         IN  IF idx = 0
             THEN Raise(s2, <<obj>>, "ValueError")
             ELSE Return([s2 EXCEPT !.clue_history = Append(@, idx - 1)], <<obj>>, <<>>)

\* faulty variant: the clue is marked answered before the length of chars
\* is checked
set_clue_chars_marks_first(self, pos, clue, chars) ==
    LET s0 == mark_answered(self, pos)
        obj == [clue EXCEPT !.answered = TRUE]
    IN  IF Len(chars) # clue.length
        THEN Raise(s0, <<obj>>, "InvalidClueError")
        ELSE IF \E k \in 1..clue.length : ~HasCell(current_grid(self), cells(clue)[k])
        THEN Raise(s0, <<obj>>, "IndexError")
        ELSE LET s1 == push_grid(s0, filled_grid(current_grid(self), clue, chars))
                 idx == index(s1.clues, obj)
             IN  IF idx = 0
                 THEN Raise(s1, <<obj>>, "ValueError")
                 ELSE Return([s1 EXCEPT !.clue_history = Append(@, idx - 1)], <<obj>>, <<>>)

set_clue_chars(self, pos, clue, chars) ==
    IF Len(chars) # clue.length
    THEN Raise(self, <<clue>>, "InvalidClueError")
    ELSE IF \E k \in 1..clue.length : ~HasCell(current_grid(self), cells(clue)[k])
    THEN Raise(self, <<clue>>, "IndexError")
    ELSE LET new_grid == filled_grid(current_grid(self), clue, chars)
             s1 == push_grid(self, new_grid)
             s2 == mark_answered(s1, pos)
             obj == [clue EXCEPT !.answered = TRUE]
             idx == index(s2.clues, obj)
         IN  IF idx = 0
             THEN Raise(s2, <<obj>>, "ValueError")
             ELSE Return([s2 EXCEPT !.clue_history = Append(@, idx - 1)], <<obj>>, <<>>)

\* faulty variant: a clue that is already answered is left alone, as
\* reveal_all leaves it
reveal_unless_answered(self, pos, clue) ==
    IF ~truthy(clue.answer)
    THEN Raise(self, <<clue>>, "InvalidClueError")
    ELSE IF clue.answered
    THEN Return(self, <<clue>>, <<>>)
    ELSE set_clue_chars(self, pos, clue, clue.answer[1])

reveal_clue_answer(self, pos, clue) ==
    IF ~truthy(clue.answer)
    THEN Raise(self, <<clue>>, "InvalidClueError")
    ELSE set_clue_chars(self, pos, clue, clue.answer[1])

\* the loop of reveal_all from list position k on
RECURSIVE reveal_from(_, _)
reveal_from(self, k) ==
    IF k > Len(self.clues)
    THEN Return(self, NoClue, <<>>)
    ELSE LET clue == self.clues[k] IN
         IF ~clue.answered /\ truthy(clue.answer)
         THEN LET r == reveal_clue_answer(self, k, clue) IN
              IF r.err # NoErr THEN Raise(r.self, NoClue, r.err)
              ELSE reveal_from(r.self, k + 1)
         ELSE reveal_from(self, k + 1)

\* faulty variant: every clue with an answer is revealed, the answered ones
\* as well
RECURSIVE reveal_every_from(_, _)
reveal_every_from(self, k) ==
    IF k > Len(self.clues)
    THEN Return(self, NoClue, <<>>)
    ELSE IF truthy(self.clues[k].answer)
    THEN LET r == reveal_clue_answer(self, k, self.clues[k])
         IN  IF r.err # NoErr
             THEN Raise(r.self, NoClue, r.err)
             ELSE reveal_every_from(r.self, k + 1)
    ELSE reveal_every_from(self, k + 1)

reveal_all_every(self) == reveal_every_from(self, 1)

reveal_all(self) == reveal_from(self, 1)

\* `x in clue.cells()` for an int x: the elements of the list are tuples, and
\* in Python an int never equals a tuple
int_equals_tuple(x, cell) == FALSE

int_in_cells(x, clue) ==
    \E k \in 1..clue.length : int_equals_tuple(x, cells(clue)[k])

\* the list comprehension of get_clues_overlapping_with_cell from position k on
RECURSIVE overlapping_from(_, _, _, _)
overlapping_from(self, k, row, col) ==
    IF k > Len(self.clues)
    THEN <<>>
    ELSE IF int_in_cells(row, self.clues[k]) /\ int_in_cells(col, self.clues[k])
    THEN <<self.clues[k]>> \o overlapping_from(self, k + 1, row, col)
    ELSE overlapping_from(self, k + 1, row, col)

get_clues_overlapping_with_cell(self, row, col) ==
    Return(self, NoClue, overlapping_from(self, 1, row, col))

validate_clue_chars(self, pos, clue) ==
    LET got == get_current_clue_chars(self, pos, clue) IN
    IF got.err # NoErr THEN got
    ELSE IF clue.answer = NoAnswer
    THEN Raise(self, <<clue>>, "TypeError")
    ELSE Return(self, <<clue>>, got.ret = clue.answer[1])

\* all(... for clue in self.clues if clue.answer) from list position k on:
\* the first failing clue ends the iteration
RECURSIVE validate_from(_, _)
validate_from(self, k) ==
    IF k > Len(self.clues)
    THEN Return(self, NoClue, TRUE)
    ELSE IF ~truthy(self.clues[k].answer)
    THEN validate_from(self, k + 1)
    ELSE LET r == validate_clue_chars(self, k, self.clues[k]) IN
         IF r.err # NoErr THEN Raise(self, NoClue, r.err)
         ELSE IF ~r.ret THEN Return(self, NoClue, FALSE)
         ELSE validate_from(self, k + 1)

\* faulty variant: the clues are filtered by their answered flag, not their answer
RECURSIVE validate_answered_from(_, _)
validate_answered_from(self, k) ==
    IF k > Len(self.clues)
    THEN Return(self, NoClue, TRUE)
    ELSE IF ~self.clues[k].answered
    THEN validate_answered_from(self, k + 1)
    ELSE LET r == validate_clue_chars(self, k, self.clues[k]) IN
         IF r.err # NoErr THEN Raise(self, NoClue, r.err)
         ELSE IF ~r.ret THEN Return(self, NoClue, FALSE)
         ELSE validate_answered_from(self, k + 1)

validate_all_answered(self) == validate_answered_from(self, 1)

\* faulty variant: any() instead of all(): one right clue is enough
RECURSIVE validate_any_from(_, _)
validate_any_from(self, k) ==
    IF k > Len(self.clues)
    THEN Return(self, NoClue, FALSE)
    ELSE IF truthy(self.clues[k].answer)
    THEN LET r == validate_clue_chars(self, k, self.clues[k])
         IN  IF r.err # NoErr
             THEN Raise(r.self, NoClue, r.err)
             ELSE IF r.ret
             THEN Return(self, NoClue, TRUE)
             ELSE validate_any_from(self, k + 1)
    ELSE validate_any_from(self, k + 1)

validate_any(self) == validate_any_from(self, 1)

validate_all(self) == validate_from(self, 1)

\* self.grid_history.pop()
pop_grid(self) ==
    [self EXCEPT !.grid_history = SubSeq(@, 1, Len(@) - 1)]

\* faulty variant: undo without clue_history.pop(): the flag of the last entry is
\* cleared but the entry stays
undo_keeps_index(self) ==
    IF Len(self.grid_history) <= 1
    THEN Raise(self, NoClue, "InvalidGridError")
    ELSE LET s1 == pop_grid(self) IN
         IF self.clue_history = <<>>
         THEN Raise(s1, NoClue, "IndexError")
         ELSE LET clue_idx == self.clue_history[Len(self.clue_history)]
              IN  Return([s1 EXCEPT !.clues[clue_idx + 1].answered = FALSE], NoClue, <<>>)

\* faulty variant: undo clears the answered flag of every clue, as reset does
undo_clears_all(self) ==
    IF Len(self.grid_history) <= 1
    THEN Raise(self, NoClue, "InvalidGridError")
    ELSE LET s1 == pop_grid(self) IN
         IF self.clue_history = <<>>
         THEN Raise(s1, NoClue, "IndexError")
         ELSE LET s2 == [s1 EXCEPT !.clue_history = SubSeq(@, 1, Len(@) - 1)]
              IN  Return([s2 EXCEPT !.clues = [i \in DOMAIN @ |-> [@[i] EXCEPT !.answered = FALSE]]],
                         NoClue, <<>>)

\* faulty variant: undo pops the snapshot and the index and leaves the
\* answered flag of the clue as it is
undo_keeps_flag(self) ==
    IF Len(self.grid_history) <= 1
    THEN Raise(self, NoClue, "InvalidGridError")
    ELSE LET s1 == pop_grid(self) IN
         IF self.clue_history = <<>>
         THEN Raise(s1, NoClue, "IndexError")
         ELSE Return([s1 EXCEPT !.clue_history = SubSeq(@, 1, Len(@) - 1)], NoClue, <<>>)

undo(self) ==
    IF Len(self.grid_history) <= 1
    THEN Raise(self, NoClue, "InvalidGridError")
    ELSE LET s1 == pop_grid(self) IN
         IF self.clue_history = <<>>
         THEN Raise(s1, NoClue, "IndexError")
         ELSE LET clue_idx == self.clue_history[Len(self.clue_history)]
                  s2 == [s1 EXCEPT !.clue_history = SubSeq(@, 1, Len(@) - 1)]
              IN  Return([s2 EXCEPT !.clues[clue_idx + 1].answered = FALSE], NoClue, <<>>)

\* faulty variant: reset empties the clue list as well
reset_drops_clues(self) ==
    Return([self EXCEPT
               !.grid_history = <<self.grid_history[1]>>,
               !.clue_history = <<>>,
               !.clues = <<>>],
           NoClue, <<>>)

\* faulty variant: reset truncates the histories and leaves the answered flags
reset_keeps_flags(self) ==
    Return([self EXCEPT
               !.grid_history = <<self.grid_history[1]>>,
               !.clue_history = <<>>],
           NoClue, <<>>)

reset(self) ==
    Return([self EXCEPT
               !.grid_history = <<self.grid_history[1]>>,
               !.clue_history = <<>>,
               !.clues = [i \in DOMAIN self.clues |->
                            [self.clues[i] EXCEPT !.answered = FALSE]]],
           NoClue, <<>>)

----------------------------------------------------------------------------
(* The authoring tool: CrosswordCreator of create.py *)

NoCreator == <<>>

\* CrosswordCreator.__init__: an empty grid and no clues
NewCreator(w, h) == [grid |-> EmptyGrid(w, h), clues |-> <<>>]

\* the arguments of add_entry
Entry(number, direction, clue_text, answer, row, col) ==
    [number |-> number, direction |-> direction, clue_text |-> clue_text,
     answer |-> answer, row |-> row, col |-> col]

\* the Clue that add_entry constructs: length=len(answer), answer=answer.upper()
entry_clue(e) ==
    Clue(e.number, e.clue_text, e.direction, Len(e.answer), e.row, e.col,
         Some([k \in DOMAIN e.answer |-> upper(e.answer[k])]), FALSE)

\* the Field constraints of Clue: number > 0, length > 0, row >= 0, col >= 0
clue_fields_valid(clue) ==
    clue.number > 0 /\ clue.length > 0 /\ clue.row >= 0 /\ clue.col >= 0

\* faulty variant: the cells are checked against the grid bounds only, as
\* add_clue of the puzzle does
validate_entry_bounds_only(self, clue) ==
    /\ clue.length > 0
    /\ \A k \in 1..clue.length :
         LET row == cells(clue)[k][1]
             col == cells(clue)[k][2]
         IN  ~(row < 0 \/ row >= self.grid.height \/ col < 0 \/ col >= self.grid.width)

\* _validate_entry: every cell is inside the grid and is empty or holds the
\* letter the clue has for it
validate_entry(self, clue) ==
    /\ clue.length > 0
    /\ \A k \in 1..clue.length :
         LET row == cells(clue)[k][1]
             col == cells(clue)[k][2]
         IN  /\ ~(row < 0 \/ row >= self.grid.height \/ col < 0 \/ col >= self.grid.width)
             /\ \/ self.grid.cells[row][col] = None
                \/ self.grid.cells[row][col] = clue.answer[1][k]

\* _place_entry: the letters of the answer are written into the creator's grid
place_entry(self, clue) ==
    [self EXCEPT !.grid.cells =
        [r \in DOMAIN @ |-> [c \in DOMAIN @[r] |->
            IF \E k \in 1..clue.length : cells(clue)[k] = <<r, c>>
            THEN clue.answer[1][CHOOSE k \in 1..clue.length : cells(clue)[k] = <<r, c>>]
            ELSE @[r][c]]]]

add_entry(self, e) ==
    LET clue == entry_clue(e)
    IN  IF ~clue_fields_valid(clue)
        THEN Raise(self, NoClue, "ValidationError")
        ELSE IF ~validate_entry(self, clue)
        THEN Raise(self, NoClue, "ValueError")
        ELSE Return([place_entry(self, clue) EXCEPT !.clues = Append(@, clue)], <<clue>>, <<>>)

----------------------------------------------------------------------------
(* Inputs *)

\* the first two clues of the puzzle of tests/test_crossword.py scaled to
\* the model's grid: they cross at (0,0)
\*     A B .
\*     B . .
Fixture ==
    << Clue(1, "Feline friend", ACROSS, 2, 0, 0, Some(<<"A", "B">>), FALSE),
       Clue(2, "Dairy farm animal", DOWN, 2, 0, 0, Some(<<"A", "B">>), FALSE) >>

\* clue objects handed to add_clue: one without an answer that fits, one
\* with a number already taken, one too long for the grid and one that
\* starts below it
AddInputs ==
    { Clue(3, "No answer", ACROSS, 1, 1, 1, NoAnswer, FALSE),
      Clue(1, "Taken", DOWN, 1, 1, 1, Some(<<"A">>), FALSE),
      Clue(5, "Too long across", ACROSS, GridWidth + 1, 0, 0, NoAnswer, FALSE),
      Clue(6, "Outside grid", ACROSS, 1, GridHeight, 0, Some(<<"A">>), FALSE) }

\* clue objects that are not elements of the clue list: one with the fields
\* of the first clue, one that differs from it in the text alone and the one
\* of test_get_current_clue_chars, whose number no clue of the list has
ExtInputs ==
    { Clue(1, "Feline friend", ACROSS, 2, 0, 0, Some(<<"A", "B">>), FALSE),
      Clue(1, "Feline", ACROSS, 2, 0, 0, Some(<<"A", "B">>), FALSE),
      Clue(99, "Invalid", ACROSS, 2, 0, 0, Some(<<"B", "A">>), FALSE) }

\* character lists handed to set_clue_chars
CharInputs == { <<"a", "B">>, <<"B", "a">>, <<"a">> }

\* clue objects over every position of the grid and one step beyond it, with
\* a number the fixture has, the number the added clue has and a free one
ClueDomain ==
    { Clue(n, "", d, l, r, c, NoAnswer, FALSE) :
        n \in {1, 3, 7}, d \in Direction, l \in 1..(GridWidth + 1),
        r \in 0..GridHeight, c \in 0..GridWidth }

\* the values a cell can hold
CellValues ==
    {None} \cup UNION { { upper(chars[k]) : k \in DOMAIN chars } : chars \in CharInputs }

----------------------------------------------------------------------------
(* The state machine *)

\* the puzzle object
Self ==
    [width |-> width, height |-> height, clues |-> clues,
     grid_history |-> grid_history, clue_history |-> clue_history]

\* what a caller can pass as a clue: an element of the list (by position)
\* or another object (position 0)
Args ==
    { <<i, clues[i]>> : i \in DOMAIN clues } \cup { <<0, c>> : c \in ExtInputs }

\* The call `op` with result r replaces the puzzle by r.self; last records
\* the call: the position of its clue argument, its outcome and the length
\* of grid_history when it was made.
CallUpTo(op, pos, r, longest) ==
    /\ Len(r.self.grid_history) <= longest
    /\ width' = r.self.width
    /\ height' = r.self.height
    /\ clues' = r.self.clues
    /\ grid_history' = r.self.grid_history
    /\ clue_history' = r.self.clue_history
    /\ creator' = creator
    /\ last' = [op |-> op, err |-> r.err, pos |-> pos, ret |-> r.ret,
                n |-> Len(grid_history)]

Call(op, pos, r) == CallUpTo(op, pos, r, MaxHistory)

\* the puzzle p has just been constructed
PuzzleIs(p) ==
    /\ width = p.width
    /\ height = p.height
    /\ clues = p.clues
    /\ grid_history = p.grid_history
    /\ clue_history = p.clue_history
    /\ last = [op |-> "init", err |-> NoErr, pos |-> 0, ret |-> <<>>, n |-> 0]

\* a program that uses the puzzle constructs no CrosswordCreator
Constructed(p) == PuzzleIs(p) /\ creator = NoCreator

Init == Constructed(NewPuzzle(GridWidth, GridHeight, Fixture))

AddClue(c) == Call("add_clue", 0, add_clue(Self, c))

GetCurrentClueChars(a) ==
    Call("get_current_clue_chars", a[1], get_current_clue_chars(Self, a[1], a[2]))

SetClueChars(a, chars) ==
    Call("set_clue_chars", a[1], set_clue_chars(Self, a[1], a[2], chars))

RevealClueAnswer(a) ==
    Call("reveal_clue_answer", a[1], reveal_clue_answer(Self, a[1], a[2]))

RevealAll == Call("reveal_all", 0, reveal_all(Self))

ValidateClueChars(a) ==
    Call("validate_clue_chars", a[1], validate_clue_chars(Self, a[1], a[2]))

ValidateAll == Call("validate_all", 0, validate_all(Self))

Undo == Call("undo", 0, undo(Self))

Reset == Call("reset", 0, reset(Self))

GetCluesOverlappingWithCell(row, col) ==
    Call("get_clues_overlapping_with_cell", 0, get_clues_overlapping_with_cell(Self, row, col))

\* the calls that take no new clue object
Play ==
    \/ \E a \in Args : GetCurrentClueChars(a)
    \/ \E a \in Args, chars \in CharInputs : SetClueChars(a, chars)
    \/ \E a \in Args : RevealClueAnswer(a)
    \/ RevealAll
    \/ \E a \in Args : ValidateClueChars(a)
    \/ ValidateAll
    \/ Undo
    \/ Reset
    \/ \E row \in 0..(height - 1), col \in 0..(width - 1) : GetCluesOverlappingWithCell(row, col)

Next ==
    \/ \E c \in AddInputs : AddClue(c)
    \/ Play

Spec == Init /\ [][Next]_vars

----------------------------------------------------------------------------
(* The puzzle of the tests and of main.py: three crossing clues, filled with
   guesses, checked, undone and reset                                      *)
MainWidth == 5
MainHeight == 5

MainClues ==
    << Clue(1, "Feline friend", ACROSS, 3, 0, 0, Some(<<"C", "A", "T">>), FALSE),
       Clue(2, "Dairy farm animal", DOWN, 3, 0, 0, Some(<<"C", "O", "W">>), FALSE),
       Clue(3, "A drop of sadness", DOWN, 4, 0, 2, Some(<<"T", "E", "A", "R">>), FALSE) >>

MainGuesses ==
    { <<"a", "b", "c">>, <<"c", "a", "t">>, <<"c", "o", "w">>, <<"t", "e", "a", "r">> }

\* main.py never holds more snapshots than the empty grid and one per clue
MainLongest == Len(MainClues) + 1

InitMain == Constructed(NewPuzzle(MainWidth, MainHeight, MainClues))

MainGuess(i, chars) ==
    CallUpTo("set_clue_chars", i, set_clue_chars(Self, i, clues[i], chars), MainLongest)

MainUndo == CallUpTo("undo", 0, undo(Self), MainLongest)

MainValidateAll == CallUpTo("validate_all", 0, validate_all(Self), MainLongest)

MainReset == CallUpTo("reset", 0, reset(Self), MainLongest)

NextMain ==
    \/ \E i \in DOMAIN clues, chars \in MainGuesses : MainGuess(i, chars)
    \/ MainUndo
    \/ MainValidateAll
    \/ MainReset

SpecMain == InitMain /\ [][NextMain]_vars

----------------------------------------------------------------------------
(* A puzzle on which every call that changes it is made with a clue of its
   own list: fills, reveals, undos and resets, and clues added by add_clue *)

InitMembers == Constructed(NewPuzzle(GridWidth, GridHeight, Fixture))

NextMembers ==
    \/ \E c \in AddInputs : AddClue(c)
    \/ \E i \in DOMAIN clues, chars \in CharInputs : SetClueChars(<<i, clues[i]>>, chars)
    \/ \E i \in DOMAIN clues : RevealClueAnswer(<<i, clues[i]>>)
    \/ RevealAll
    \/ Undo
    \/ Reset

SpecMembers == InitMembers /\ [][NextMembers]_vars

----------------------------------------------------------------------------
(* Puzzles built from a supplied clue list: the constructor, which
   save_puzzle and the JSON loader use, stores the list as given           *)

\* 1-Across and 1-Down, as crosswords number them
SharedNumberClues ==
    << Clue(1, "Feline friend", ACROSS, 2, 0, 0, Some(<<"A", "B">>), FALSE),
       Clue(1, "Dairy farm animal", DOWN, 2, 0, 0, Some(<<"A", "B">>), FALSE) >>

\* a clue whose last cell is one column right of the grid
OutsideClues ==
    << Clue(1, "Feline friend", ACROSS, 2, 0, GridWidth - 1, Some(<<"A", "B">>), FALSE) >>

BuiltLists == {SharedNumberClues, OutsideClues}

\* a clue inside the grid whose answer is longer than the clue and lowercase
BuiltAddInputs ==
    { Clue(4, "Wrong answer", ACROSS, 2, 1, 0, Some(<<"a", "b", "a">>), FALSE) }

InitBuilt == \E cs \in BuiltLists : Constructed(NewPuzzle(GridWidth, GridHeight, cs))

NextBuilt ==
    \/ \E c \in BuiltAddInputs : AddClue(c)
    \/ Play

SpecBuilt == InitBuilt /\ [][NextBuilt]_vars

----------------------------------------------------------------------------
(* The authoring tool on an empty grid: entries are added one after another *)

MaxEntries == 3

\* entries that cross and agree, entries that cross and disagree, entries
\* that leave the grid and one with an empty answer
\*     A B .
\*     B A .
EntryInputs ==
    { Entry(1, ACROSS, "Feline friend", <<"a", "b">>, 0, 0),
      Entry(1, DOWN, "Dairy farm animal", <<"A", "B">>, 0, 0),
      Entry(2, DOWN, "Disagrees at the start", <<"b", "a">>, 0, 0),
      Entry(3, DOWN, "Second column", <<"b", "a">>, 0, 1),
      Entry(4, ACROSS, "Second row", <<"b", "a">>, 1, 0),
      Entry(5, ACROSS, "Leaves the grid", <<"a", "b">>, 0, GridWidth - 1),
      Entry(6, DOWN, "Below the grid", <<"a">>, GridHeight, 0),
      Entry(7, ACROSS, "Empty", <<>>, 0, 0) }

AddEntry(e) ==
    LET r == add_entry(creator, e)
    IN  /\ Len(r.self.clues) <= MaxEntries
        /\ creator' = r.self
        /\ last' = [op |-> "add_entry", err |-> r.err, pos |-> 0, ret |-> r.ret,
                    n |-> Len(creator.clues)]
        /\ UNCHANGED <<width, height, clues, grid_history, clue_history>>

NextCreate == \E e \in EntryInputs : AddEntry(e)

\* create.py constructs a creator; the puzzle plays no part until save_puzzle
InitCreate ==
    /\ PuzzleIs(NewPuzzle(GridWidth, GridHeight, <<>>))
    /\ creator = NewCreator(GridWidth, GridHeight)

SpecCreate == InitCreate /\ [][NextCreate]_vars

----------------------------------------------------------------------------
(* Properties *)

\* the character lists of the inputs that fit the clue
Fitting(clue) == { chars \in CharInputs : Len(chars) = clue.length }

\* the answered flags of the clue list, in list order
Answered(cs) == [i \in DOMAIN cs |-> cs[i].answered]

\* every cell of the grid is blank
Blank(grid) ==
    \A r \in DOMAIN grid.cells : \A c \in DOMAIN grid.cells[r] : grid.cells[r][c] = None

\* C1: after any sequence of calls, failing ones included, grid_history
\* is non-empty and one longer than clue_history.
C1_HistoryLengths ==
    /\ grid_history # <<>>
    /\ Len(grid_history) = Len(clue_history) + 1

\* C2: in every reachable state, for every clue of the list and every
\* character list of the clue's length, set_clue_chars followed by undo
\* succeeds and leaves grid_history and clue_history as they were.
C2_FillThenUndoRestoresHistory ==
    \A i \in DOMAIN clues : \A chars \in Fitting(clues[i]) :
        LET filled == set_clue_chars(Self, i, clues[i], chars)
            undone == undo(filled.self)
        IN  /\ filled.err = NoErr
            /\ filled.self.grid_history # grid_history
            /\ undone.err = NoErr
            /\ undone.self.grid_history = grid_history
            /\ undone.self.clue_history = clue_history

\* an undo has just removed a snapshot that a fill had put on a history
\* of at least two snapshots
C2_FillUndone ==
    /\ last.op = "undo" /\ last.err = NoErr /\ last.n >= 3
    /\ Len(grid_history) = last.n - 1
    /\ clue_history # <<>>

\* C3: in every reachable state and for every clue of the list,
\* set_clue_chars followed by undo leaves the clue's answered flag as it
\* was before the fill, also when the clue was answered before.
C3_FillThenUndoRestoresAnswered ==
    \A i \in DOMAIN clues : \A chars \in Fitting(clues[i]) :
        LET filled == set_clue_chars(Self, i, clues[i], chars)
            undone == undo(filled.self)
        IN  undone.self.clues[i].answered = clues[i].answered

\* C4: set_clue_chars with a clue object that is not an element of the
\* clue list (and characters of its length) signals an error and changes
\* neither the histories nor an answered flag, the object's own included.
C4_RejectedFillChangesNothing ==
    \A c \in ExtInputs : \A chars \in Fitting(c) :
        LET r == set_clue_chars(Self, 0, c, chars)
        IN  /\ r.err # NoErr
            /\ r.self.grid_history = grid_history
            /\ r.self.clue_history = clue_history
            /\ Answered(r.self.clues) = Answered(clues)
            /\ r.clue = <<c>>

\* what reset promises of the puzzle p
AfterReset(p) ==
    /\ Len(p.grid_history) = 1
    /\ Blank(p.grid_history[1])
    /\ p.clue_history = <<>>
    /\ \A i \in DOMAIN p.clues : ~p.clues[i].answered

\* C5: reset, from any reachable state, leaves exactly one snapshot with
\* every cell blank, an empty clue_history and every answered flag false.
C5_ResetPostcondition ==
    /\ reset(Self).err = NoErr
    /\ AfterReset(reset(Self).self)
    /\ last.op = "reset" => AfterReset(Self)

\* a reset has just been made on a history of at least two fills
C5_ResetAfterFills ==
    /\ last.op = "reset" /\ last.n >= 3
    /\ Len(grid_history) = 1

\* C6: when every clue has a non-empty answer, reveal_all followed by
\* validate_all returns true from every reachable state, and every clue is
\* then answered and holds its answer.
C6_RevealAllThenValidateAll ==
    (\A i \in DOMAIN clues : truthy(clues[i].answer)) =>
        LET revealed == reveal_all(Self)
            checked == validate_all(revealed.self)
        IN  /\ revealed.err = NoErr
            /\ checked.err = NoErr
            /\ checked.ret = TRUE
            /\ \A i \in DOMAIN clues :
                 /\ revealed.self.clues[i].answered
                 /\ get_current_clue_chars(revealed.self, i, revealed.self.clues[i]).ret
                       = clues[i].answer[1]

\* the current grid of p holds the clue's answer at the clue's cells
HoldsAnswer(p, clue) ==
    /\ Len(clue.answer[1]) = clue.length
    /\ \A k \in 1..clue.length :
         LET rc == IF clue.direction = ACROSS
                   THEN <<clue.row, clue.col + k - 1>>
                   ELSE <<clue.row + k - 1, clue.col>>
         IN  p.grid_history[Len(p.grid_history)].cells[rc[1]][rc[2]] = clue.answer[1][k]

\* the puzzle p with one cell of its current grid overwritten
Overwritten(p, rc, v) ==
    [p EXCEPT !.grid_history[Len(p.grid_history)].cells[rc[1]][rc[2]] = v]

\* C7: validate_all returns true exactly when every clue with a recorded
\* answer holds it in the current grid, clues without an answer being
\* ignored; with one cell of an answer-bearing clue overwritten by a wrong
\* value it returns false.
C7_ValidateAllIffAllMatch ==
    /\ validate_all(Self).err = NoErr
    /\ validate_all(Self).ret =
         (\A i \in DOMAIN clues : truthy(clues[i].answer) => HoldsAnswer(Self, clues[i]))
    /\ \A i \in DOMAIN clues : truthy(clues[i].answer) =>
         \A k \in 1..clues[i].length : \A v \in CellValues \ {clues[i].answer[1][k]} :
            LET wrong == validate_all(Overwritten(Self, cells(clues[i])[k], v))
            IN  wrong.err = NoErr /\ wrong.ret = FALSE

\* validate_all has just returned true on a puzzle that holds a clue without
\* an answer
C7_ValidWithAnswerlessClue ==
    /\ last.op = "validate_all" /\ last.err = NoErr /\ last.ret = TRUE
    /\ \E i \in DOMAIN clues : ~truthy(clues[i].answer)

Inside(clue) ==
    \A k \in 1..clue.length :
        /\ 0 <= cells(clue)[k][1] /\ cells(clue)[k][1] < height
        /\ 0 <= cells(clue)[k][2] /\ cells(clue)[k][2] < width

\* C9: add_clue appends the clue to the end of the clue list exactly when
\* no clue of the list has its number and all its cells are inside the
\* grid; otherwise it signals InvalidClue and changes nothing.
C9_AddClueIffUniqueAndInside ==
    last.op = "add_clue" =>
        \A c \in ClueDomain \cup AddInputs :
            LET r == add_clue(Self, c)
            IN  IF (\A i \in DOMAIN clues : clues[i].number # c.number) /\ Inside(c)
                THEN r.err = NoErr /\ r.self = [Self EXCEPT !.clues = Append(clues, c)]
                ELSE r.err = "InvalidClueError" /\ r.self = Self

\* add_clue has just appended a clue to a puzzle with fills in its history
C9_ClueAdded ==
    /\ last.op = "add_clue" /\ last.err = NoErr
    /\ Len(clues) = Len(Fixture) + 1
    /\ Len(grid_history) >= 2

\* C10: undo on a history of only the initial snapshot signals InvalidGrid
\* and changes nothing, and in no other state does undo fail.
C10_UndoFailsOnlyOnInitialHistory ==
    LET r == undo(Self)
    IN  IF Len(grid_history) = 1
        THEN r.err = "InvalidGridError" /\ r.self = Self
        ELSE r.err = NoErr

\* the characters of chars, each lowercase letter replaced by its capital
Uppercased(chars) ==
    [k \in DOMAIN chars |->
        CASE chars[k] = "a" -> "A"
          [] chars[k] = "b" -> "B"
          [] OTHER -> chars[k]]

\* C11: a set_clue_chars on a clue of the list with chars of the clue's
\* length succeeds, lengthens grid_history and clue_history by exactly one,
\* appends the position of the clue in the list to clue_history, marks the
\* clue answered, and get_current_clue_chars of the clue then returns chars
\* with every character uppercased.
C11_FillPostcondition ==
    \A i \in DOMAIN clues : \A chars \in Fitting(clues[i]) :
        LET r == set_clue_chars(Self, i, clues[i], chars)
            got == get_current_clue_chars(r.self, i, r.self.clues[i])
        IN  /\ r.err = NoErr
            /\ Len(r.self.grid_history) = Len(grid_history) + 1
            /\ r.self.clue_history = Append(clue_history, i - 1)
            /\ r.self.clues[i].answered
            /\ got.err = NoErr
            /\ got.ret = Uppercased(chars)

\* set_clue_chars has just filled the second clue of the list over an
\* earlier fill
C11_SecondClueFilled ==
    /\ last.op = "set_clue_chars" /\ last.err = NoErr /\ last.pos = 2
    /\ last.n >= 2
    /\ Len(grid_history) = last.n + 1
    /\ clue_history[Len(clue_history)] = 1
    /\ clues[2].answered

\* character lists of a wrong length for every clue of the inputs
WrongLengths == CharInputs \cup {<<>>, <<"a", "B", "a", "B", "a">>}

\* C12: set_clue_chars with chars whose length differs from the clue's
\* length signals InvalidClue and leaves grid_history, clue_history and the
\* answered flag of every clue, the given clue's included, unchanged.
C12_WrongLengthChangesNothing ==
    \A a \in Args : \A chars \in WrongLengths :
        Len(chars) # a[2].length =>
            LET r == set_clue_chars(Self, a[1], a[2], chars)
            IN  /\ r.err = "InvalidClueError"
                /\ r.self.grid_history = grid_history
                /\ r.self.clue_history = clue_history
                /\ Answered(r.self.clues) = Answered(clues)
                /\ r.clue = <<a[2]>>

\* set_clue_chars has just rejected chars of a wrong length for a clue of
\* the list, in a puzzle with fills in its history
C12_WrongLengthRejected ==
    /\ last.op = "set_clue_chars" /\ last.err = "InvalidClueError" /\ last.pos > 0
    /\ Len(grid_history) >= 2
    /\ Len(grid_history) = last.n
    /\ ~clues[last.pos].answered

\* clue objects that are not in the list, with an empty and with no answer
NoAnswerInputs ==
    { Clue(98, "Empty answer", ACROSS, 2, 0, 0, Some(<<>>), FALSE),
      Clue(97, "No answer", DOWN, 2, 0, 0, NoAnswer, FALSE) }

\* C13: reveal_clue_answer of a clue with a non-empty answer leaves the
\* puzzle exactly as set_clue_chars of the clue with the characters of its
\* answer does (for a clue of the list with an answer of its length: one more
\* snapshot, holding the answer), and of a clue with no answer or an empty
\* one signals InvalidClue and changes nothing.
C13_RevealIsFillWithAnswer ==
    \A a \in Args \cup { <<0, c>> : c \in NoAnswerInputs } :
        LET r == reveal_clue_answer(Self, a[1], a[2])
        IN  IF a[2].answer # NoAnswer /\ a[2].answer[1] # <<>>
            THEN /\ r = set_clue_chars(Self, a[1], a[2], a[2].answer[1])
                 /\ (a[1] > 0 /\ Len(a[2].answer[1]) = a[2].length) =>
                       /\ r.err = NoErr
                       /\ Len(r.self.grid_history) = Len(grid_history) + 1
                       /\ HoldsAnswer(r.self, a[2])
            ELSE r.err = "InvalidClueError" /\ r.self = Self

\* reveal_clue_answer has just written the answer of a clue of the list that
\* was answered before, over a grid that did not hold it
C13_AnswerRevealed ==
    /\ last.op = "reveal_clue_answer" /\ last.err = NoErr /\ last.pos > 0
    /\ Len(grid_history) = last.n + 1
    /\ Len(clue_history) >= 2
    /\ clue_history[Len(clue_history) - 1] = last.pos - 1
    /\ HoldsAnswer(Self, clues[last.pos])
    /\ ~HoldsAnswer([Self EXCEPT !.grid_history = SubSeq(@, 1, Len(@) - 1)], clues[last.pos])

\* the clues of the list whose cells contain the pair (row, col), in list order
CluesAt(row, col) ==
    LET Covers(clue) == \E k \in 1..clue.length : cells(clue)[k] = <<row, col>>
    IN  SelectSeq(clues, Covers)

\* C14: for every row and column of the grid,
\* get_clues_overlapping_with_cell(row, col) returns exactly the clues whose
\* cells contain the pair (row, col).
C14_OverlappingCluesAreThoseAtCell ==
    \A row \in 0..(height - 1) : \A col \in 0..(width - 1) :
        LET r == get_clues_overlapping_with_cell(Self, row, col)
        IN  r.err = NoErr /\ r.ret = CluesAt(row, col)

\* C18: validate_clue_chars of a clue of the list, with or without an answer,
\* signals no error and returns a boolean that is true exactly when the
\* current characters of the clue are its recorded answer.
C18_ValidateClueCharsNeverFails ==
    \A i \in DOMAIN clues :
        LET r == validate_clue_chars(Self, i, clues[i])
        IN  /\ r.err = NoErr
            /\ r.ret \in BOOLEAN
            /\ r.ret <=> (clues[i].answer # NoAnswer /\ HoldsAnswer(Self, clues[i]))

\* the positions of the clues reveal_all has to reveal: not answered, and
\* with a non-empty answer, in increasing order
Due(p) ==
    LET IsDue(i) == ~p.clues[i].answered /\ p.clues[i].answer # NoAnswer
                    /\ p.clues[i].answer[1] # <<>>
    IN  SelectSeq([i \in 1..Len(p.clues) |-> i], IsDue)

AfterCatCow ==
    LET p0 == NewPuzzle(MainWidth, MainHeight, MainClues)
        p1 == set_clue_chars(p0, 1, p0.clues[1], <<"c", "a", "t">>).self
    IN  set_clue_chars(p1, 2, p1.clues[2], <<"c", "o", "w">>).self

\* and after the guess t,e,a,r for the third clue
AfterTear ==
    set_clue_chars(AfterCatCow, 3, AfterCatCow.clues[3], <<"t", "e", "a", "r">>).self

\* C15: on the 5x5 puzzle with CAT across and COW and TEAR down, validate_all
\* is false after the guesses c,a,t and c,o,w, true after the further guess
\* t,e,a,r, and false again after one undo.
C15_CatCowTearScenario ==
    /\ Self = AfterCatCow =>
         LET v == validate_all(Self)
         IN  v.err = NoErr /\ v.ret = FALSE
    /\ Self = AfterTear =>
         LET v == validate_all(Self)
             u == undo(Self)
             w == validate_all(u.self)
         IN  /\ v.err = NoErr /\ v.ret = TRUE
             /\ u.err = NoErr
             /\ w.err = NoErr /\ w.ret = FALSE
    /\ (last.op = "validate_all" /\ Self \in {AfterCatCow, AfterTear}) =>
         last.ret = (Self = AfterTear)

\* undo has just taken back the guess t,e,a,r, leaving the puzzle as it was
\* after c,a,t and c,o,w
C15_TearUndone ==
    /\ last.op = "undo" /\ last.err = NoErr
    /\ last.n = Len(MainClues) + 1
    /\ Self = AfterCatCow

\* C16: in every state reached by constructing a puzzle with a supplied clue
\* list and then calling add_clue, no two clues of the list have the same
\* number.
C16_NumbersUnique ==
    \A i \in DOMAIN clues : \A j \in DOMAIN clues :
        i # j => clues[i].number # clues[j].number

\* C17: in every reachable state every cell of every clue of the list is
\* inside the grid, so get_current_clue_chars and set_clue_chars on a clue of
\* the list never index outside the grid.
C17_CluesInsideGrid ==
    \A i \in DOMAIN clues :
        /\ Inside(clues[i])
        /\ get_current_clue_chars(Self, i, clues[i]).err # "IndexError"
        /\ \A chars \in Fitting(clues[i]) :
             set_clue_chars(Self, i, clues[i], chars).err # "IndexError"

\* C20: every clue of the list that has an answer has one of the clue's
\* length made of uppercase characters, so reveal_clue_answer on such a clue
\* never fails on a length mismatch.
C20_AnswersFitClues ==
    \A i \in DOMAIN clues :
        clues[i].answer # NoAnswer =>
            /\ Len(clues[i].answer[1]) = clues[i].length
            /\ clues[i].answer[1] = Uppercased(clues[i].answer[1])
            /\ reveal_clue_answer(Self, i, clues[i]).err # "InvalidClueError"

\* k calls of undo, stopping at the first that fails
RECURSIVE undo_times(_, _)
undo_times(self, k) ==
    IF k = 0
    THEN Return(self, NoClue, <<>>)
    ELSE LET u == undo(self)
         IN  IF u.err # NoErr THEN u ELSE undo_times(u.self, k - 1)

\* the histories of a puzzle
Histories(p) == <<p.grid_history, p.clue_history>>

\* the fills of clues of the list that succeed
Fills(p) == { f \in (DOMAIN p.clues) \X CharInputs : Len(f[2]) = p.clues[f[1]].length }

\* the puzzle p after the fill f
Filled(p, f) == set_clue_chars(p, f[1], p.clues[f[1]], f[2]).self

\* C21: undo is last-in-first-out, one level per call: k calls of undo after
\* n fills give back the histories as they were after the first n - k
\* fills, each undo removing one snapshot and one clue_history entry and
\* clearing answered on the clue at the popped index only, and the undo after
\* the n-th signals InvalidGrid.
C21_UndoIsLastInFirstOut ==
    LET n == Len(clue_history)
    IN  /\ \A k \in 0..n :
             LET u == undo_times(Self, k)
             IN  /\ u.err = NoErr
                 /\ u.self.grid_history = SubSeq(grid_history, 1, Len(grid_history) - k)
                 /\ u.self.clue_history = SubSeq(clue_history, 1, n - k)
        /\ undo(undo_times(Self, n).self).err = "InvalidGridError"
        /\ n > 0 =>
             LET u == undo(Self)
                 popped == clue_history[n] + 1
             IN  /\ ~u.self.clues[popped].answered
                 /\ u.self.clues = [clues EXCEPT ![popped].answered = FALSE]
        /\ \A f \in Fills(Self) :
             LET p1 == Filled(Self, f)
             IN  /\ Histories(undo_times(p1, 1).self) = Histories(Self)
                 /\ \A g \in Fills(p1) :
                      LET p2 == Filled(p1, g)
                      IN  /\ Histories(undo_times(p2, 1).self) = Histories(p1)
                          /\ Histories(undo_times(p2, 2).self) = Histories(Self)
                          /\ undo_times(p2, n + 2).err = NoErr
                          /\ undo_times(p2, n + 3).err = "InvalidGridError"

\* undo has just taken back the second of two fills, and the clue of the
\* first fill is still answered
C21_SecondFillUndone ==
    /\ last.op = "undo" /\ last.err = NoErr /\ last.n >= 3
    /\ Len(grid_history) = last.n - 1
    /\ Len(clue_history) = Len(grid_history) - 1
    /\ clues[clue_history[Len(clue_history)] + 1].answered

\* C24: from a puzzle constructed with no clue answered, through fills,
\* reveals, undos and resets on clues of the list, a clue that is answered
\* has its list position in clue_history.
C24_AnsweredIsInHistory ==
    \A i \in DOMAIN clues :
        clues[i].answered => \E k \in DOMAIN clue_history : clue_history[k] = i - 1

\* undo has just cleared one clue and another clue is still answered
C24_AnsweredAfterUndo ==
    /\ last.op = "undo" /\ last.err = NoErr
    /\ \E i \in DOMAIN clues : clues[i].answered
    /\ \E i \in DOMAIN clues : ~clues[i].answered /\ clues[i].answer # NoAnswer

\* undo called until one snapshot is left, stopping at the first that fails
RECURSIVE undo_all(_)
undo_all(self) ==
    IF Len(self.grid_history) <= 1
    THEN Return(self, NoClue, <<>>)
    ELSE LET u == undo(self)
         IN  IF u.err # NoErr THEN u ELSE undo_all(u.self)

Kept(p, q) ==
    \A k \in DOMAIN p.grid_history \cap DOMAIN q.grid_history :
        q.grid_history[k] = p.grid_history[k]

\* C22: no fill, reveal, undo or reset changes a snapshot already stored in
\* grid_history, and the first snapshot is blank in every reachable state,
\* also after a reset followed by a fill.
C22_SnapshotsIsolated ==
    /\ Blank(grid_history[1])
    /\ Kept(Self, reveal_all(Self).self)
    /\ Kept(Self, undo(Self).self)
    /\ Kept(Self, reset(Self).self)
    /\ \A a \in Args :
         /\ Kept(Self, reveal_clue_answer(Self, a[1], a[2]).self)
         /\ \A chars \in CharInputs :
              /\ Kept(Self, set_clue_chars(Self, a[1], a[2], chars).self)
              /\ a[1] > 0 =>
                   LET p == reset(Self).self
                       q == set_clue_chars(p, a[1], p.clues[a[1]], chars).self
                   IN  Blank(q.grid_history[1]) /\ Kept(p, q)

\* set_clue_chars has just appended a snapshot that differs from the one
\* before it, on a history of blank first snapshot and earlier fills
C22_SnapshotAppended ==
    /\ last.op = "set_clue_chars" /\ last.err = NoErr
    /\ last.n >= 2
    /\ Len(grid_history) = last.n + 1
    /\ grid_history[last.n + 1] # grid_history[last.n]
    /\ ~Blank(grid_history[last.n])

\* C23: a successful set_clue_chars changes the current grid at the cells
\* of the clue only: each of them takes its character, uppercased, whatever
\* a crossing clue had written there, every other cell keeps the value of
\* the previous snapshot, and the answered flag of every other clue is
\* unchanged.
C23_FillChangesOnlyClueCells ==
    \A a \in Args : \A chars \in CharInputs :
        LET r == set_clue_chars(Self, a[1], a[2], chars)
            old == current_grid(Self)
            new == current_grid(r.self)
        IN  r.err = NoErr =>
              /\ Len(r.self.grid_history) = Len(grid_history) + 1
              /\ \A k \in 1..a[2].length :
                   new.cells[cells(a[2])[k][1]][cells(a[2])[k][2]] = Uppercased(chars)[k]
              /\ \A row \in 0..(height - 1) : \A col \in 0..(width - 1) :
                   (\A k \in 1..a[2].length : cells(a[2])[k] # <<row, col>>) =>
                       new.cells[row][col] = old.cells[row][col]
              /\ \A i \in DOMAIN clues :
                   i # a[1] => r.self.clues[i].answered = clues[i].answered

\* set_clue_chars has just filled the second clue over a fill of the first:
\* the cell they share changed and the other cell of the first clue did not
C23_CrossingClueFilled ==
    /\ last.op = "set_clue_chars" /\ last.err = NoErr /\ last.pos = 2
    /\ last.n >= 2
    /\ Len(grid_history) = last.n + 1
    /\ LET old == grid_history[last.n]
           new == grid_history[last.n + 1]
       IN  /\ old.cells[0][0] # None
           /\ new.cells[0][0] # old.cells[0][0]
           /\ old.cells[0][1] # None
           /\ new.cells[0][1] = old.cells[0][1]

\* the clues of the list without their answered flags
Unflagged(cs) == [i \in DOMAIN cs |-> [cs[i] EXCEPT !.answered = FALSE]]

\* C26: the clue list changes only through a successful add_clue:
\* set_clue_chars, reveal_clue_answer, reveal_all, undo and reset add, remove
\* and reorder no clue and change no field of a clue but answered, and
\* get_current_clue_chars, validate_clue_chars, validate_all and
\* get_clues_overlapping_with_cell change nothing.
C26_ClueListFrame ==
    /\ Unflagged(reveal_all(Self).self.clues) = Unflagged(clues)
    /\ Unflagged(undo(Self).self.clues) = Unflagged(clues)
    /\ Unflagged(reset(Self).self.clues) = Unflagged(clues)
    /\ validate_all(Self).self = Self
    /\ \A row \in 0..(height - 1) : \A col \in 0..(width - 1) :
         get_clues_overlapping_with_cell(Self, row, col).self = Self
    /\ \A a \in Args :
         /\ Unflagged(reveal_clue_answer(Self, a[1], a[2]).self.clues) = Unflagged(clues)
         /\ \A chars \in CharInputs :
              Unflagged(set_clue_chars(Self, a[1], a[2], chars).self.clues) = Unflagged(clues)
         /\ get_current_clue_chars(Self, a[1], a[2]).self = Self
         /\ validate_clue_chars(Self, a[1], a[2]).self = Self
    /\ \A c \in AddInputs :
         LET r == add_clue(Self, c)
         IN  r.self.clues # clues => (r.err = NoErr /\ r.self.clues = Append(clues, c))

\* reset has just run on a puzzle with an added clue and fills in its
\* history, and the three clues are still there
C26_ResetKeepsAddedClue ==
    /\ last.op = "reset" /\ last.err = NoErr /\ last.n >= 2
    /\ Len(clues) = Len(Fixture) + 1
    /\ Unflagged(SubSeq(clues, 1, Len(Fixture))) = Unflagged(Fixture)

\* the clue has every cell inside the grid
InsideGrid(grid, clue) ==
    \A k \in 1..clue.length :
        /\ 0 <= cells(clue)[k][1] /\ cells(clue)[k][1] < grid.height
        /\ 0 <= cells(clue)[k][2] /\ cells(clue)[k][2] < grid.width

\* the entry has a cell outside the grid, or a cell where the grid holds
\* another letter than the entry's uppercased answer
OutsideOrConflicting(c, e) ==
    \E k \in 1..Len(e.answer) :
        LET row == IF e.direction = ACROSS THEN e.row ELSE e.row + k - 1
            col == IF e.direction = ACROSS THEN e.col + k - 1 ELSE e.col
        IN  \/ row >= c.grid.height
            \/ col >= c.grid.width
            \/ c.grid.cells[row][col] \notin {None, Uppercased(e.answer)[k]}

\* C27: after any sequence of add_entry calls every clue of the creator's
\* list has its cells inside the grid and the creator's grid holds, at each
\* of them, the letter of the clue's uppercased answer; an add_entry with a
\* cell outside the grid or a letter that conflicts raises an error and
\* leaves the creator's grid and clue list unchanged.
C27_EntriesAgreeWithGrid ==
    /\ \A i \in DOMAIN creator.clues :
         LET clue == creator.clues[i]
         IN  /\ InsideGrid(creator.grid, clue)
             /\ clue.answer # NoAnswer
             /\ Len(clue.answer[1]) = clue.length
             /\ clue.answer[1] = Uppercased(clue.answer[1])
             /\ \A k \in 1..clue.length :
                  creator.grid.cells[cells(clue)[k][1]][cells(clue)[k][2]] = clue.answer[1][k]
    /\ \A e \in EntryInputs :
         OutsideOrConflicting(creator, e) =>
             LET r == add_entry(creator, e)
             IN  r.err # NoErr /\ r.self = creator

\* add_entry has just placed an entry that crosses an earlier one at a cell
\* where their letters agree
C27_CrossingEntryAdded ==
    /\ last.op = "add_entry" /\ last.err = NoErr /\ last.n >= 1
    /\ Len(creator.clues) = last.n + 1
    /\ \E i \in 1..last.n :
         /\ creator.clues[i].direction # creator.clues[last.n + 1].direction
         /\ \E k \in 1..creator.clues[i].length :
              \E j \in 1..creator.clues[last.n + 1].length :
                 cells(creator.clues[i])[k] = cells(creator.clues[last.n + 1])[j]

====
